---- MODULE Spec2Model ----
(***************************************************************************)
(* Basic-auth middleware of the gateway (mw_basic_auth.go): credential     *)
(* extraction, identity resolution, two-tier bcrypt verification with the  *)
(* process-wide fingerprint cache, and session binding.  Every request is  *)
(* served by its own worker; the workers share the cache and the clock.    *)
(*                                                                         *)
(* The error handler of the gateway (gateway/handler_error.go) follows:    *)
(* one HandleError call from its arguments to its return.                  *)
(*                                                                         *)
(* Strings are sequences: a header is a sequence of one-character strings, *)
(* decoded text (user names, passwords) is a sequence of byte values.      *)
(***************************************************************************)
EXTENDS Integers, Sequences, FiniteSets, TLC

VARIABLES run, cache, now, traffic, hdrIn, hdrOut, eh, verifiedAt

vars == <<run, cache, now, traffic, hdrIn, hdrOut, eh, verifiedAt>>

Workers == {"w1", "w2"}

\* ---- bounds ----
\* the clock advances in jumps of TickStep seconds up to MaxTime
TickStep == 30
MaxTime == 60
\* longest Authorization header enumerated by SpecHeader
MaxHdrLen == 5

\* ---- program constants ----
StatusOK == 200
StatusBadRequest == 400
StatusUnauthorized == 401
defaultBasicAuthTTL == 60

NoErr == "nil"
Colon == 58

\* ---------------------------------------------------------------------------
\* strings.Split, strings.TrimPrefix, base64.StdEncoding.DecodeString
\* ---------------------------------------------------------------------------
RECURSIVE Split(_, _)
Split(s, sep) ==
  IF \A i \in 1..Len(s) : s[i] # sep
  THEN <<s>>
  ELSE LET i == CHOOSE k \in 1..Len(s) :
                  s[k] = sep /\ \A m \in 1..(k - 1) : s[m] # sep
       IN <<SubSeq(s, 1, i - 1)>> \o Split(SubSeq(s, i + 1, Len(s)), sep)

HasPrefix(s, p) == Len(s) >= Len(p) /\ SubSeq(s, 1, Len(p)) = p

TrimPrefix(s, p) == IF HasPrefix(s, p) THEN SubSeq(s, Len(p) + 1, Len(s)) ELSE s

B64Chars ==
  << "A","B","C","D","E","F","G","H","I","J","K","L","M","N","O","P",
     "Q","R","S","T","U","V","W","X","Y","Z","a","b","c","d","e","f",
     "g","h","i","j","k","l","m","n","o","p","q","r","s","t","u","v",
     "w","x","y","z","0","1","2","3","4","5","6","7","8","9","+","/" >>

\* the six-bit value of each character of the alphabet
B64Index == [c \in {B64Chars[i] : i \in 1..64} |-> (CHOOSE i \in 1..64 : B64Chars[i] = c) - 1]

IsB64Char(c) == c \in DOMAIN B64Index

B64Val(c) == B64Index[c]

\* one quantum of four characters; "=" may pad the last one or two places
QuantumOK(q, last) ==
  /\ IsB64Char(q[1]) /\ IsB64Char(q[2])
  /\ \/ IsB64Char(q[3]) /\ IsB64Char(q[4])
     \/ last /\ IsB64Char(q[3]) /\ q[4] = "="
     \/ last /\ q[3] = "=" /\ q[4] = "="

QuantumBytes(q) ==
  LET v1 == B64Val(q[1])
      v2 == B64Val(q[2])
      b1 == v1 * 4 + (v2 \div 16)
  IN IF q[3] = "=" THEN <<b1>>
     ELSE LET v3 == B64Val(q[3])
              b2 == (v2 % 16) * 16 + (v3 \div 4)
          IN IF q[4] = "=" THEN <<b1, b2>>
             ELSE <<b1, b2, (v3 % 4) * 64 + B64Val(q[4])>>

RECURSIVE DecodeQuanta(_)
DecodeQuanta(s) ==
  IF Len(s) = 0 THEN <<>>
  ELSE QuantumBytes(SubSeq(s, 1, 4)) \o DecodeQuanta(SubSeq(s, 5, Len(s)))

\* [ok, bytes]: the decoded bytes, or ok = FALSE for corrupt input
DecodeString(s) ==
  IF /\ Len(s) % 4 = 0
     /\ \A k \in 0..((Len(s) \div 4) - 1) :
           QuantumOK(SubSeq(s, 4 * k + 1, 4 * k + 4), 4 * k + 4 = Len(s))
  THEN [ok |-> TRUE, bytes |-> DecodeQuanta(s)]
  ELSE [ok |-> FALSE, bytes |-> <<>>]

\* ---------------------------------------------------------------------------
\* basicAuthHeaderCredentials on the Authorization header value; challenge
\* tells whether requestForBasicAuth added a WWW-Authenticate value
\* ---------------------------------------------------------------------------
HeaderFail(msg, code, challenge) ==
  [username |-> <<>>, password |-> <<>>, err |-> msg, code |-> code,
   challenge |-> challenge]

\* variant: a missing header is reported like a malformed one
basicAuthHeaderCredentialsMissingAsMalformed(token) ==
  LET bits == Split(token, " ") IN
    IF Len(bits) # 2
    THEN HeaderFail("Attempted access with malformed header, header not in basic auth format",
                    StatusBadRequest, FALSE)
    ELSE LET dec == DecodeString(bits[2]) IN
      IF ~dec.ok
      THEN HeaderFail("Attempted access with malformed header, auth data not encoded correctly",
                      StatusBadRequest, FALSE)
      ELSE LET authValues == Split(dec.bytes, Colon) IN
        IF Len(authValues) # 2
        THEN HeaderFail("Attempted access with malformed header, values not in basic auth format",
                        StatusBadRequest, FALSE)
        ELSE [username |-> authValues[1], password |-> authValues[2],
              err |-> NoErr, code |-> 0, challenge |-> FALSE]

basicAuthHeaderCredentials(token) ==
  IF token = <<>>
  THEN HeaderFail("Authorization field missing", StatusUnauthorized, TRUE)
  ELSE LET bits == Split(token, " ") IN
    IF Len(bits) # 2
    THEN HeaderFail("Attempted access with malformed header, header not in basic auth format",
                    StatusBadRequest, FALSE)
    ELSE LET dec == DecodeString(bits[2]) IN
      IF ~dec.ok
      THEN HeaderFail("Attempted access with malformed header, auth data not encoded correctly",
                      StatusBadRequest, FALSE)
      ELSE LET authValues == Split(dec.bytes, Colon) IN
        IF Len(authValues) # 2
        THEN HeaderFail("Attempted access with malformed header, values not in basic auth format",
                        StatusBadRequest, FALSE)
        ELSE [username |-> authValues[1], password |-> authValues[2],
              err |-> NoErr, code |-> 0, challenge |-> FALSE]

\* ---------------------------------------------------------------------------
\* Data: API definitions, requests, identity store, bcrypt and murmur3
\* ---------------------------------------------------------------------------
OrgID == <<111>>

\* apidef.AuthTypeEnum
BasicAuthUser == "basic_auth_user"
UnsetAuth == ""
AuthToken == "auth_token"

\* user.HashType
HashBCrypt == "bcrypt"
HashPlainText == "plaintext"

\* body patterns: with a capture group, without one, empty, not compilable
RxUser == "<User>(.*)</User>"
RxUserNoGroup == "<User>.*</User>"
RxPass == "<Pass>(.*)</Pass>"
RxPassNoGroup == "<Pass>.*</Pass>"
RxEmpty == ""
RxBad == "("

MkAPI(name, basic, fromBody, userRx, passRx, noCache, ttl, provider) ==
  [Name |-> name, OrgID |-> OrgID, UseBasicAuth |-> basic,
   ExtractFromBody |-> fromBody, BodyUserRegexp |-> userRx,
   BodyPasswordRegexp |-> passRx, DisableCaching |-> noCache,
   CacheTTL |-> ttl, BaseIdentityProvidedBy |-> provider]

APIs ==
  { MkAPI("a1", TRUE, FALSE, RxEmpty, RxEmpty, FALSE, 0, UnsetAuth),
    MkAPI("a2", TRUE, TRUE, RxUser, RxPass, FALSE, 30, BasicAuthUser),
    MkAPI("a3", TRUE, FALSE, RxEmpty, RxEmpty, TRUE, 0, AuthToken),
    MkAPI("a4", TRUE, TRUE, RxUserNoGroup, RxPass, TRUE, 0, AuthToken),
    MkAPI("a5", TRUE, TRUE, RxUser, RxPassNoGroup, TRUE, 0, AuthToken),
    MkAPI("a6", TRUE, TRUE, RxEmpty, RxPass, FALSE, 0, UnsetAuth),
    MkAPI("a7", TRUE, TRUE, RxBad, RxPass, FALSE, 0, UnsetAuth),
    MkAPI("a8", TRUE, TRUE, RxUser, RxBad, FALSE, 0, UnsetAuth),
    MkAPI("a9", FALSE, FALSE, RxEmpty, RxEmpty, FALSE, 0, UnsetAuth) }

NoAPI == MkAPI("", FALSE, FALSE, RxEmpty, RxEmpty, FALSE, 0, UnsetAuth)

\* passwords p, q, r and user names u, v, t, z, y, x
PwP == <<112>>
PwQ == <<113>>
PwR == <<114>>

\* bcrypt hash strings held by the identity store
H1 == <<36, 49>>
H2 == <<36, 50>>

\* the plaintext each bcrypt hash string was generated from
BcryptPlain == (H1 :> PwP) @@ (H2 :> PwR)

\* bcrypt.CompareHashAndPassword: TRUE for a nil error
CompareHashAndPassword(hash, password) ==
  hash \in DOMAIN BcryptPlain /\ BcryptPlain[hash] = password

RECURSIVE SumBytes(_)
SumBytes(s) == IF s = <<>> THEN 0 ELSE s[1] + SumBytes(Tail(s))

\* murmur3.New64 sum of the password: a short digest, so distinct passwords
\* can share one (here p and q do, r does not)
Fingerprint(password) == <<SumBytes(password) \div 2>>

NoSession == [Hash |-> "", Password |-> <<>>]

\* key derivations: canonical (generateToken) and legacy (storage.GenerateToken
\* with an empty hash algorithm)
generateToken(orgID, keyID) == [format |-> "canonical", org |-> orgID, id |-> keyID]

GenerateToken(orgID, keyID, hashAlgo) ==
  [format |-> IF hashAlgo = "" THEN "legacy" ELSE hashAlgo, org |-> orgID, id |-> keyID]

NoKey == [format |-> "", org |-> <<>>, id |-> <<>>]

IdentityStore ==
     (generateToken(OrgID, <<117>>) :> [Hash |-> HashBCrypt, Password |-> H1])
  @@ (GenerateToken(OrgID, <<118>>, "") :> [Hash |-> HashBCrypt, Password |-> H1])
  @@ (generateToken(OrgID, <<116>>) :> [Hash |-> HashPlainText, Password |-> PwP])
  @@ (generateToken(OrgID, <<122>>) :> [Hash |-> HashBCrypt, Password |-> H2])
  @@ (generateToken(OrgID, <<121>>) :> [Hash |-> "sha256", Password |-> <<48>>])

CheckSessionAndIdentityForValidKey(keyName) ==
  IF keyName \in DOMAIN IdentityStore
  THEN [session |-> IdentityStore[keyName], keyExists |-> TRUE]
  ELSE [session |-> NoSession, keyExists |-> FALSE]

HashKeyFunctions == {"", "murmur64"}

\* request bodies: which of the <User> and <Pass> elements they carry
Elem(present, val) == [present |-> present, val |-> val]

MkBody(u, p) == [User |-> u, Pass |-> p]

NoBody == MkBody(Elem(FALSE, <<>>), Elem(FALSE, <<>>))

BodyUP == MkBody(Elem(TRUE, <<117>>), Elem(TRUE, PwP))

BodyUserOnly == MkBody(Elem(TRUE, <<117>>), Elem(FALSE, <<>>))

BodyPassOnly == MkBody(Elem(FALSE, <<>>), Elem(TRUE, PwP))

Basic == <<"B", "a", "s", "i", "c", " ">>

\* Basic base64(user:pass) for u:p u:q u:r v:p v:r ov:p t:p t:r z:r z:p y:r x:p
HdrUP == Basic \o <<"d", "T", "p", "w">>
HdrUQ == Basic \o <<"d", "T", "p", "x">>
HdrUR == Basic \o <<"d", "T", "p", "y">>
HdrVP == Basic \o <<"d", "j", "p", "w">>
HdrVR == Basic \o <<"d", "j", "p", "y">>
HdrOVP == Basic \o <<"b", "3", "Y", "6", "c", "A", "=", "=">>
HdrTP == Basic \o <<"d", "D", "p", "w">>
HdrTR == Basic \o <<"d", "D", "p", "y">>
HdrZR == Basic \o <<"e", "j", "p", "y">>
HdrZP == Basic \o <<"e", "j", "p", "w">>
HdrYR == Basic \o <<"e", "T", "p", "y">>
HdrXP == Basic \o <<"e", "D", "p", "w">>

GoodHeaders ==
  {HdrUP, HdrUQ, HdrUR, HdrVP, HdrVR, HdrOVP, HdrTP, HdrTR, HdrZR, HdrZP, HdrYR, HdrXP}

\* no scheme separator, three tokens, bad base64, "up", ":::"
BadHeaders ==
  { <<"B", "a", "s", "i", "c">>,
    Basic \o <<"d", "T", "p", "w", " ", "x">>,
    Basic \o <<"d", "!", "p", "w">>,
    Basic \o <<"d", "X", "A", "=">>,
    Basic \o <<"O", "j", "o", "6">> }

MkRequest(header, body) == [header |-> header, body |-> body]

Requests ==
     {MkRequest(h, NoBody) : h \in GoodHeaders \cup BadHeaders \cup {<<>>}}
  \cup {MkRequest(<<>>, b) : b \in {BodyUP, BodyUserOnly, BodyPassOnly}}
  \cup {MkRequest(Basic \o <<"d", "T", "p", "y">>, BodyUP),
        MkRequest(<<"B", "a", "s", "i", "c">>, BodyUP)}

\* The traffic a behaviour serves: every API and request one at a time, or
\* two workers at once on the cached bcrypt identities, or two workers at once
\* on one API with found, legacy-found and missing identities
Traffic == {"serial", "concurrent", "pair"}

TrafficWorkers == IF traffic = "serial" THEN {"w1"} ELSE Workers

TrafficAPIs ==
  IF traffic = "serial" THEN APIs
  ELSE IF traffic = "concurrent" THEN {a \in APIs : a.Name \in {"a1", "a2", "a9"}}
  ELSE {a \in APIs : a.Name \in {"a1", "a9"}}

TrafficRequests ==
  IF traffic = "serial" THEN Requests
  ELSE IF traffic = "concurrent"
  THEN {MkRequest(h, NoBody) : h \in {HdrUP, HdrUQ, HdrUR, HdrZR}}
  ELSE {MkRequest(h, NoBody) : h \in {HdrUP, HdrUR, HdrVP, HdrVR, HdrXP, HdrTP, HdrTR}}

\* ---------------------------------------------------------------------------
\* The verification cache (go-cache): Get treats an entry as absent once the
\* clock has passed its expiration; Set stamps now + d
\* ---------------------------------------------------------------------------
CacheKeys == DOMAIN BcryptPlain

NoEntry == [present |-> FALSE, value |-> <<>>, exp |-> 0]

basicAuthCache == [h \in CacheKeys |-> NoEntry]

\* variant: entries never expire
LiveForever(c, k, t) == c[k].present

Live(c, k, t) == c[k].present /\ ~(t > c[k].exp)

CacheGet(c, k, t) ==
  IF Live(c, k, t) THEN [value |-> c[k].value, inCache |-> TRUE]
  ELSE [value |-> <<>>, inCache |-> FALSE]

\* variant: the entry is stored under every key
CacheSetAllKeys(c, k, x, d, t) ==
  [h \in DOMAIN c |-> [present |-> TRUE, value |-> x, exp |-> t + d]]

CacheSet(c, k, x, d, t) == [c EXCEPT ![k] = [present |-> TRUE, value |-> x, exp |-> t + d]]

\* ---------------------------------------------------------------------------
\* One run of ProcessRequest
\* ---------------------------------------------------------------------------
NoCtx == [set |-> FALSE, session |-> NoSession, keyName |-> NoKey]

IdleRun ==
  [pc |-> "idle", api |-> NoAPI, header |-> <<>>, body |-> NoBody,
   username |-> <<>>, password |-> <<>>, err |-> NoErr, code |-> 0,
   wwwAuth |-> <<>>, session |-> NoSession, keyName |-> NoKey, ctx |-> NoCtx,
   hashKeyFunction |-> "unread", ops |-> <<>>, log |-> "", events |-> <<>>,
   health |-> <<>>]

NewRun(api, rq) == [IdleRun EXCEPT !.api = api, !.header = rq.header, !.body = rq.body]

Op(r, name) == [r EXCEPT !.ops = Append(@, name)]

\* EnabledForSpec: whether the middleware joins the chain, and the compiled
\* body patterns it keeps
EnabledForSpec(api) ==
  IF ~api.UseBasicAuth
  THEN [enabled |-> FALSE, bodyUserRegexp |-> RxEmpty, bodyPasswordRegexp |-> RxEmpty]
  ELSE IF api.ExtractFromBody
  THEN IF api.BodyUserRegexp = "" \/ api.BodyPasswordRegexp = ""
       THEN [enabled |-> FALSE, bodyUserRegexp |-> RxEmpty, bodyPasswordRegexp |-> RxEmpty]
       ELSE IF api.BodyUserRegexp = RxBad
       THEN [enabled |-> FALSE, bodyUserRegexp |-> RxEmpty, bodyPasswordRegexp |-> RxEmpty]
       ELSE IF api.BodyPasswordRegexp = RxBad
       THEN [enabled |-> FALSE, bodyUserRegexp |-> api.BodyUserRegexp,
             bodyPasswordRegexp |-> RxEmpty]
       ELSE [enabled |-> TRUE, bodyUserRegexp |-> api.BodyUserRegexp,
             bodyPasswordRegexp |-> api.BodyPasswordRegexp]
  ELSE [enabled |-> TRUE, bodyUserRegexp |-> RxEmpty, bodyPasswordRegexp |-> RxEmpty]

\* requestForBasicAuth
requestForBasicAuth(r, msg) ==
  [r EXCEPT !.wwwAuth = Append(@, <<"Basic realm=", r.api.Name>>),
            !.err = msg, !.code = StatusUnauthorized]

\* handleAuthFail
handleAuthFail(r) ==
  requestForBasicAuth(
    [Op(r, "handleAuthFail") EXCEPT
        !.events = Append(@, [type |-> "AuthFailure", token |-> r.header]),
        !.health = Append(@, [metric |-> "KeyFailure", value |-> "-1"]),
        !.pc = "done"],
    "User not authorised")

\* regexp FindAllSubmatch(body, 1): at most one match, the whole match
\* followed by its capture groups
FindAllSubmatch(rx, body) ==
  LET el == IF rx \in {RxUser, RxUserNoGroup} THEN body.User ELSE body.Pass IN
    IF ~el.present \/ rx \notin {RxUser, RxUserNoGroup, RxPass, RxPassNoGroup}
    THEN <<>>
    ELSE IF rx \in {RxUser, RxPass} THEN << <<el.val, el.val>> >>
    ELSE << <<el.val>> >>

BodyFail(r, msg) == [r EXCEPT !.err = msg, !.code = StatusBadRequest]

\* basicAuthBodyCredentials
basicAuthBodyCredentials(r, mw) ==
  LET r0 == Op(r, "body")
      userMatch == FindAllSubmatch(mw.bodyUserRegexp, r.body)
      passMatch == FindAllSubmatch(mw.bodyPasswordRegexp, r.body)
  IN IF Len(userMatch) = 0 THEN BodyFail(r0, "Body do not contain username")
     ELSE IF Len(userMatch[1]) < 2
     THEN BodyFail(r0, "username should be inside regexp match group")
     ELSE IF Len(passMatch) = 0 THEN BodyFail(r0, "Body do not contain password")
     ELSE IF Len(passMatch[1]) < 2
     THEN BodyFail(r0, "password should be inside regexp match group")
     ELSE [r0 EXCEPT !.username = userMatch[1][2], !.password = passMatch[1][2],
                     !.err = NoErr, !.code = 0]

\* variant: the challenge set by header mode is kept when the body is tried
ExtractStepKeepChallenge(r, mw) ==
  LET h == basicAuthHeaderCredentials(r.header)
      r1 == [Op(r, "header") EXCEPT
               !.username = h.username, !.password = h.password,
               !.err = h.err, !.code = h.code,
               !.wwwAuth = IF h.challenge
                           THEN Append(@, <<"Basic realm=", r.api.Name>>) ELSE @]
  IN IF h.err # NoErr
     THEN LET r2 == IF r.api.ExtractFromBody
                    THEN basicAuthBodyCredentials(r1, mw)
                    ELSE r1
          IN IF r2.err # NoErr THEN [r2 EXCEPT !.pc = "done"]
             ELSE [r2 EXCEPT !.pc = "resolve"]
     ELSE [r1 EXCEPT !.pc = "resolve"]

\* ProcessRequest, credential extraction
ExtractStep(r, mw) ==
  LET h == basicAuthHeaderCredentials(r.header)
      r1 == [Op(r, "header") EXCEPT
               !.username = h.username, !.password = h.password,
               !.err = h.err, !.code = h.code,
               !.wwwAuth = IF h.challenge
                           THEN Append(@, <<"Basic realm=", r.api.Name>>) ELSE @]
  IN IF h.err # NoErr
     THEN LET r2 == IF r.api.ExtractFromBody
                    THEN basicAuthBodyCredentials([r1 EXCEPT !.wwwAuth = <<>>], mw)
                    ELSE r1
          IN IF r2.err # NoErr THEN [r2 EXCEPT !.pc = "done"]
             ELSE [r2 EXCEPT !.pc = "resolve"]
     ELSE [r1 EXCEPT !.pc = "resolve"]

\* variant: an unknown user gets a message of its own
NotFoundDistinct(r) ==
  [handleAuthFail([r EXCEPT !.log = "Attempted access with non-existent user."])
     EXCEPT !.err = "User not found"]

NotFound(r) ==
  handleAuthFail([r EXCEPT !.log = "Attempted access with non-existent user."])

\* variant: the legacy key is tried whatever the hash key function is
ResolveStepAlwaysLegacy(r, hkf) ==
  LET keyName == generateToken(r.api.OrgID, r.username)
      first == CheckSessionAndIdentityForValidKey(keyName)
      r1 == [Op(r, "lookup canonical") EXCEPT !.keyName = keyName]
  IN IF first.keyExists
     THEN [r1 EXCEPT !.session = first.session, !.pc = "verify"]
     ELSE LET legacyKeyName == TrimPrefix(r.username, r.api.OrgID)
              key2 == GenerateToken(r.api.OrgID, legacyKeyName, "")
              second == CheckSessionAndIdentityForValidKey(key2)
              r2 == [Op(r1, "lookup legacy") EXCEPT
                       !.keyName = key2, !.hashKeyFunction = hkf]
          IN IF second.keyExists
             THEN [r2 EXCEPT !.session = second.session, !.pc = "verify"]
             ELSE NotFound(r2)

\* ProcessRequest, identity resolution; hkf is config.Global().HashKeyFunction
ResolveStep(r, hkf) ==
  LET keyName == generateToken(r.api.OrgID, r.username)
      first == CheckSessionAndIdentityForValidKey(keyName)
      r1 == [Op(r, "lookup canonical") EXCEPT !.keyName = keyName]
  IN IF first.keyExists
     THEN [r1 EXCEPT !.session = first.session, !.pc = "verify"]
     ELSE IF hkf = "" THEN NotFound([r1 EXCEPT !.hashKeyFunction = hkf])
     ELSE LET legacyKeyName == TrimPrefix(r.username, r.api.OrgID)
              key2 == GenerateToken(r.api.OrgID, legacyKeyName, "")
              second == CheckSessionAndIdentityForValidKey(key2)
              r2 == [Op(r1, "lookup legacy") EXCEPT
                       !.keyName = key2, !.hashKeyFunction = hkf]
          IN IF second.keyExists
             THEN [r2 EXCEPT !.session = second.session, !.pc = "verify"]
             ELSE NotFound(r2)

\* variant: the session is bound whatever BaseIdentityProvidedBy is
BindStepAlways(r) ==
  [Op(r, "ctxSetSession") EXCEPT
     !.ctx = [set |-> TRUE, session |-> r.session, keyName |-> r.keyName],
     !.err = NoErr, !.code = StatusOK, !.pc = "done"]

\* ProcessRequest, binding the session and returning nil, 200
BindStep(r) ==
  LET r1 == IF r.api.BaseIdentityProvidedBy \in {BasicAuthUser, UnsetAuth}
            THEN [Op(r, "ctxSetSession") EXCEPT
                    !.ctx = [set |-> TRUE, session |-> r.session,
                             keyName |-> r.keyName]]
            ELSE r
  IN [r1 EXCEPT !.err = NoErr, !.code = StatusOK, !.pc = "done"]

\* ProcessRequest after a password check returned
AfterCheck(r, ok) ==
  IF ok THEN BindStep(r)
  ELSE handleAuthFail(
         [r EXCEPT !.log = "Attempted access with existing user, failed password check."])

\* cache TTL of compareHashAndPassword
cacheTTL(api) == IF api.CacheTTL > 0 THEN api.CacheTTL ELSE defaultBasicAuthTTL

\* variant: a fingerprint mismatch on a hit is taken as a rejection, with no
\* slow check
compareHashAndPasswordNoFallback(r, c, t) ==
  LET hash == r.session.Password IN
  IF r.api.DisableCaching
  THEN AfterCheck([Op(r, "bcrypt") EXCEPT !.log = "cache disabled"],
                  CompareHashAndPassword(hash, r.password))
  ELSE LET g == CacheGet(c, hash, t)
           r1 == Op(r, "cache.Get")
       IN IF ~g.inCache
          THEN [r1 EXCEPT !.log = "cache enabled: miss: bcrypt", !.pc = "miss"]
          ELSE IF g.value # Fingerprint(r.password)
          THEN AfterCheck(
                 [r1 EXCEPT !.log = "cache enabled: hit: failed auth: bcrypt"], FALSE)
          ELSE AfterCheck([r1 EXCEPT !.log = "cache enabled: hit: success"], TRUE)

\* compareHashAndPassword up to and including the cache read; on a miss the
\* run goes on to doBcryptWithCache
compareHashAndPassword(r, c, t) ==
  LET hash == r.session.Password IN
  IF r.api.DisableCaching
  THEN AfterCheck([Op(r, "bcrypt") EXCEPT !.log = "cache disabled"],
                  CompareHashAndPassword(hash, r.password))
  ELSE LET g == CacheGet(c, hash, t)
           r1 == Op(r, "cache.Get")
       IN IF ~g.inCache
          THEN [r1 EXCEPT !.log = "cache enabled: miss: bcrypt", !.pc = "miss"]
          ELSE IF g.value # Fingerprint(r.password)
          THEN AfterCheck(
                 [Op(r1, "bcrypt") EXCEPT
                    !.log = "cache enabled: hit: failed auth: bcrypt"],
                 CompareHashAndPassword(hash, r.password))
          ELSE AfterCheck([r1 EXCEPT !.log = "cache enabled: hit: success"], TRUE)

\* ProcessRequest, the switch on the session's hash kind
VerifyStep(r, c, t) ==
  IF r.session.Hash = HashBCrypt THEN compareHashAndPassword(r, c, t)
  ELSE IF r.session.Hash = HashPlainText
  THEN AfterCheck(Op(r, "plaintext"), r.session.Password = r.password)
  ELSE BindStep(r)

\* variant: the fingerprint is stored with the default expiration of the
\* cache instead of the API's TTL
doBcryptWithCacheDefaultTTL(r, c, t) ==
  LET hash == r.session.Password
      ok == CompareHashAndPassword(hash, r.password)
  IN IF ~ok THEN [run |-> AfterCheck(Op(r, "bcrypt"), FALSE), cache |-> c]
     ELSE [run |-> AfterCheck(Op(Op(r, "bcrypt"), "cache.Set"), TRUE),
           cache |-> CacheSet(c, hash, Fingerprint(r.password), defaultBasicAuthTTL, t)]

\* doBcryptWithCache: the run and the cache after it
doBcryptWithCache(r, c, t) ==
  LET hash == r.session.Password
      ok == CompareHashAndPassword(hash, r.password)
  IN IF ~ok THEN [run |-> AfterCheck(Op(r, "bcrypt"), FALSE), cache |-> c]
     ELSE [run |-> AfterCheck(Op(Op(r, "bcrypt"), "cache.Set"), TRUE),
           cache |-> CacheSet(c, hash, Fingerprint(r.password), cacheTTL(r.api), t)]

\* the error handler has not been called
NoCall == [pc |-> "none"]

\* history of the slow check, kept by SpecTTL for the statement about the
\* age of a trusted fingerprint: for each stored hash the time bcrypt last
\* accepted a password for it, -1 before the first time
NeverVerified == [h \in CacheKeys |-> -1]

\* the history after a step that took the run from r to r2 at time t
Verified(v, r, r2, t) ==
  IF /\ Len(r2.ops) > Len(r.ops)
     /\ \E i \in (Len(r.ops) + 1)..Len(r2.ops) : r2.ops[i] = "bcrypt"
     /\ CompareHashAndPassword(r.session.Password, r.password)
  THEN [v EXCEPT ![r.session.Password] = t]
  ELSE v

\* ---------------------------------------------------------------------------
\* Actions
\* ---------------------------------------------------------------------------
Init ==
  /\ run = [w \in Workers |-> IdleRun]
  /\ cache = basicAuthCache
  /\ now = 0
  /\ traffic \in Traffic
  /\ hdrIn = <<>>
  /\ hdrOut = [err |-> "unset"]
  /\ eh = NoCall
  /\ verifiedAt = NeverVerified

Ended(w) == w \in TrafficWorkers /\ run[w].pc \in {"idle", "done", "skipped"}

\* a request arrives on an API whose chain holds the middleware
ExtractCredentials(w) ==
  /\ Ended(w)
  /\ \E api \in TrafficAPIs, rq \in TrafficRequests :
       /\ EnabledForSpec(api).enabled
       /\ run' = [run EXCEPT ![w] = ExtractStep(NewRun(api, rq), EnabledForSpec(api))]
  /\ UNCHANGED <<cache, now, traffic, hdrIn, hdrOut, eh, verifiedAt>>

\* a request arrives on an API whose chain does not hold the middleware
NotEnabled(w) ==
  /\ Ended(w)
  /\ \E api \in TrafficAPIs :
       /\ ~EnabledForSpec(api).enabled
       /\ run' = [run EXCEPT ![w] = [IdleRun EXCEPT !.pc = "skipped", !.api = api]]
  /\ UNCHANGED <<cache, now, traffic, hdrIn, hdrOut, eh, verifiedAt>>

ResolveIdentity(w) ==
  /\ run[w].pc = "resolve"
  /\ \E hkf \in HashKeyFunctions :
       run' = [run EXCEPT ![w] = ResolveStep(run[w], hkf)]
  /\ UNCHANGED <<cache, now, traffic, hdrIn, hdrOut, eh, verifiedAt>>

VerifyPasswordRun(w) ==
  /\ run[w].pc = "verify"
  /\ run' = [run EXCEPT ![w] = VerifyStep(run[w], cache, now)]
  /\ UNCHANGED <<cache, now, traffic, hdrIn, hdrOut, eh>>

VerifyPassword(w) == VerifyPasswordRun(w) /\ UNCHANGED verifiedAt

SlowVerifyRun(w) ==
  /\ run[w].pc = "miss"
  /\ LET res == doBcryptWithCache(run[w], cache, now) IN
       /\ run' = [run EXCEPT ![w] = res.run]
       /\ cache' = res.cache
  /\ UNCHANGED <<now, traffic, hdrIn, hdrOut, eh>>

SlowVerify(w) == SlowVerifyRun(w) /\ UNCHANGED verifiedAt

Tick ==
  /\ now + TickStep <= MaxTime
  /\ now' = now + TickStep
  /\ UNCHANGED <<run, cache, traffic, hdrIn, hdrOut, eh, verifiedAt>>

Next ==
  \/ \E w \in Workers :
       \/ ExtractCredentials(w)
       \/ NotEnabled(w)
       \/ ResolveIdentity(w)
       \/ VerifyPassword(w)
       \/ SlowVerify(w)
  \/ Tick

Spec == Init /\ [][Next]_vars

\* ---------------------------------------------------------------------------
\* Properties of the middleware
\* ---------------------------------------------------------------------------
Has(r, name) == \E i \in 1..Len(r.ops) : r.ops[i] = name

Done(w) == run[w].pc = "done"

Succeeded(r) == r.pc = "done" /\ r.err = NoErr /\ r.code = StatusOK

\* the run is a bcrypt verification of a password the slow check rejects
WrongBcrypt(r) ==
  /\ r.session.Hash = HashBCrypt
  /\ ~CompareHashAndPassword(r.session.Password, r.password)

Cached(r) == r.session.Hash = HashBCrypt /\ ~r.api.DisableCaching

\* the cache holds an unexpired entry for the run's hash with the fingerprint
\* of the run's password
FingerprintHit(r) ==
  /\ Live(cache, r.session.Password, now)
  /\ cache[r.session.Password].value = Fingerprint(r.password)

RejectedRun(r) ==
  /\ r.pc = "done" /\ r.code = StatusUnauthorized /\ r.err = "User not authorised"

\* C1 as stated: a bcrypt verification of a password the slow check rejects
\* never ends in success, whatever the cache holds.
C1_WrongPasswordNeverSucceeds ==
  \A w \in Workers : (Done(w) /\ WrongBcrypt(run[w])) => ~Succeeded(run[w])

\* C1 amended: a password the slow check rejects is accepted only by the step
\* that reads the cache and finds an unexpired entry for the hash holding the
\* fingerprint of the supplied password; on a hit with another fingerprint,
\* on a miss and with caching off the slow check runs and the run is rejected.
C1_WrongPasswordOnlyByFingerprint ==
  [][\A w \in Workers :
       (run[w].pc \in {"verify", "miss"} /\ run'[w] # run[w] /\ WrongBcrypt(run[w])) =>
         /\ Succeeded(run'[w]) =>
              /\ run[w].pc = "verify" /\ Cached(run[w]) /\ FingerprintHit(run[w])
              /\ ~Has(run'[w], "bcrypt")
         /\ (run[w].pc = "miss" \/ ~Cached(run[w]) \/ ~FingerprintHit(run[w])) =>
              \/ run'[w].pc = "miss"
              \/ RejectedRun(run'[w]) /\ Has(run'[w], "bcrypt")]_vars

\* a wrong password met a cached fingerprint that differs, and was rejected by
\* the slow check
C1_Witness ==
  \E w \in Workers :
    /\ Done(w) /\ WrongBcrypt(run[w]) /\ RejectedRun(run[w])
    /\ Has(run[w], "cache.Get") /\ Has(run[w], "bcrypt") /\ ~Has(run[w], "cache.Set")
    /\ Live(cache, run[w].session.Password, now)

\* C2: with caching on, a verification that finds no usable entry runs the
\* slow check and, when it succeeds, stores the password's fingerprint under
\* the hash; a verification of the matching password while an entry for the
\* hash is unexpired succeeds without the slow check and leaves the cache alone.
C2_MissStoresThenHitSkipsSlow ==
  [][\A w \in Workers :
       /\ (run[w].pc = "verify" /\ run'[w] # run[w] /\ Cached(run[w])
             /\ ~Live(cache, run[w].session.Password, now)) =>
            run'[w].pc = "miss"
       /\ (run[w].pc = "miss" /\ run'[w] # run[w]) =>
            /\ Has(run'[w], "bcrypt")
            /\ Succeeded(run'[w]) =>
                 cache'[run[w].session.Password] =
                   [present |-> TRUE, value |-> Fingerprint(run[w].password),
                    exp |-> now + cacheTTL(run[w].api)]
       /\ (run[w].pc = "verify" /\ run'[w] # run[w] /\ Cached(run[w])
             /\ Live(cache, run[w].session.Password, now)
             /\ CompareHashAndPassword(run[w].session.Password, run[w].password)) =>
            /\ Succeeded(run'[w])
            /\ ~Has(run'[w], "bcrypt")
            /\ cache' = cache]_vars

\* the matching password was accepted from the cache, with no slow check
C2_Witness ==
  \E w \in Workers :
    /\ Succeeded(run[w]) /\ Cached(run[w])
    /\ CompareHashAndPassword(run[w].session.Password, run[w].password)
    /\ run[w].log = "cache enabled: hit: success"
    /\ Has(run[w], "cache.Get") /\ ~Has(run[w], "bcrypt")

\* C3: an entry is stamped with the clock at its store plus the storing API's
\* TTL; once the clock has passed that stamp the next verification for the
\* hash takes the miss path to the slow check; a step that reads the cache
\* never changes an entry, only a successful slow verification does.
C3_EntriesExpire ==
  [][/\ \A w \in Workers :
       /\ (run[w].pc = "verify" /\ run'[w] # run[w] /\ Cached(run[w])
             /\ cache[run[w].session.Password].present
             /\ now > cache[run[w].session.Password].exp) =>
            /\ run'[w].pc = "miss"
            /\ ~Has(run'[w], "bcrypt")
       /\ (run[w].pc = "verify" /\ run'[w] # run[w]) => cache' = cache
     /\ \A h \in CacheKeys :
          cache'[h] # cache[h] =>
            \E v \in Workers :
              /\ run[v].pc = "miss" /\ Succeeded(run'[v])
              /\ run[v].session.Password = h
              /\ cache'[h].exp = now + cacheTTL(run[v].api)]_vars

\* a run found an expired entry for its hash and is on the miss path
C3_Witness ==
  \E w \in Workers :
    /\ run[w].pc = "miss"
    /\ cache[run[w].session.Password].present
    /\ now > cache[run[w].session.Password].exp

\* a slow verification at a later clock stamped its entry with that clock
C3_WitnessRenewed ==
  \E w \in Workers :
    /\ Succeeded(run[w]) /\ Has(run[w], "cache.Set")
    /\ now >= TickStep
    /\ cache[run[w].session.Password].exp = now + cacheTTL(run[w].api)

\* ProcessRequest ended in handleAuthFail, for either reason
NotFoundRun(r) == r.pc = "done" /\ r.log = "Attempted access with non-existent user."

BadPasswordRun(r) ==
  r.pc = "done" /\ r.log = "Attempted access with existing user, failed password check."

Visible(r) == <<r.err, r.code, r.wwwAuth, Len(r.events), r.health, r.ctx>>

\* C4: a run that ends because the identity was not found and a run that ends
\* because the password check failed (bcrypt or plain text) give the same
\* outcome: 401, "User not authorised", one Basic challenge for the API, one
\* AuthFailure event, one KeyFailure "-1" health value; two such runs on the
\* same API are indistinguishable.
C4_AuthFailuresAlike ==
  /\ \A w \in Workers :
       (NotFoundRun(run[w]) \/ BadPasswordRun(run[w])) =>
         /\ run[w].code = StatusUnauthorized
         /\ run[w].err = "User not authorised"
         /\ run[w].wwwAuth = << <<"Basic realm=", run[w].api.Name>> >>
         /\ Len(run[w].events) = 1
         /\ run[w].events[1] = [type |-> "AuthFailure", token |-> run[w].header]
         /\ run[w].health = << [metric |-> "KeyFailure", value |-> "-1"] >>
         /\ run[w].ctx = NoCtx
  /\ \A w1, w2 \in Workers :
       (NotFoundRun(run[w1]) /\ BadPasswordRun(run[w2]) /\ run[w1].api = run[w2].api) =>
         Visible(run[w1]) = Visible(run[w2])

\* an unknown user and a known user with a wrong bcrypt password, side by side
C4_Witness ==
  \E w1, w2 \in Workers :
    /\ NotFoundRun(run[w1]) /\ BadPasswordRun(run[w2])
    /\ run[w1].api = run[w2].api
    /\ run[w2].session.Hash = HashBCrypt

C4_WitnessPlainText ==
  \E w \in Workers : BadPasswordRun(run[w]) /\ run[w].session.Hash = HashPlainText

\* the run ended in credential extraction
ExtractionFailed(r) ==
  r.pc = "done" /\ r.err # NoErr /\ ~Has(r, "lookup canonical")

\* C5 as stated: an absent Authorization header whose every configured
\* extraction attempt failed ends with a WWW-Authenticate challenge on the
\* response.
C5_ChallengeWhenExtractionExhausted ==
  \A w \in Workers :
    (ExtractionFailed(run[w]) /\ run[w].header = <<>>) => run[w].wwwAuth # <<>>

LookupOps == {"lookup canonical", "lookup legacy"}

CheckOps == {"plaintext", "cache.Get", "bcrypt"}

\* the stage of ProcessRequest an operation belongs to
Stage(name) ==
  IF name \in {"header", "body"} THEN 1
  ELSE IF name \in LookupOps THEN 2
  ELSE IF name \in CheckOps \cup {"cache.Set"} THEN 3
  ELSE 4

\* the body carries both elements and both patterns capture them
BodyYields(r) ==
  /\ r.api.BodyUserRegexp = RxUser /\ r.api.BodyPasswordRegexp = RxPass
  /\ r.body.User.present /\ r.body.Pass.present

\* neither the header nor (when configured) the body gives credentials
NoCredentials(r) ==
  /\ basicAuthHeaderCredentials(r.header).err # NoErr
  /\ ~r.api.ExtractFromBody \/ ~BodyYields(r)

Started(r) == r.pc \notin {"idle", "skipped"}

ExtractedFirst(r) ==
  Started(r) => (NoCredentials(r) =>
    /\ r.pc = "done" /\ r.err # NoErr
    /\ \A i \in 1..Len(r.ops) : Stage(r.ops[i]) = 1)

ResolvedBeforeCheck(r) ==
  \A i \in 1..Len(r.ops) :
    r.ops[i] \in CheckOps =>
      /\ \E j \in 1..(i - 1) : r.ops[j] \in LookupOps
      /\ r.keyName \in DOMAIN IdentityStore
      /\ r.session = IdentityStore[r.keyName]

CheckedBeforeBind(r) ==
  \A i \in 1..Len(r.ops) :
    r.ops[i] = "ctxSetSession" =>
      /\ \E j \in 1..(i - 1) : r.ops[j] \in CheckOps
      /\ ~Has(r, "handleAuthFail")

FailureEndsRun(r) ==
  /\ \A i, j \in 1..Len(r.ops) : i < j => Stage(r.ops[i]) <= Stage(r.ops[j])
  /\ \A i \in 1..Len(r.ops) :
       r.ops[i] = "handleAuthFail" => (i = Len(r.ops) /\ r.pc = "done" /\ r.err # NoErr)
  /\ (r.pc = "done" /\ r.err # NoErr /\ Started(r)) =>
       ~Has(r, "ctxSetSession") /\ r.ctx = NoCtx

\* C7 as stated: the steps run in the order extract, resolve, verify, bind:
\* no store lookup after a failed extraction, no password check before an
\* identity was found, no session bound before a password check of the run
\* succeeded, and a failed step ends the run with an error and nothing after.
C7_StepOrder ==
  \A w \in Workers :
    /\ ExtractedFirst(run[w])
    /\ ResolvedBeforeCheck(run[w])
    /\ CheckedBeforeBind(run[w])
    /\ FailureEndsRun(run[w])

\* C7 for identities whose hash kind is bcrypt or plain text: for these the
\* four orderings hold; the others are bound with no check at all.
C7_StepOrderKnownHashKinds ==
  \A w \in Workers :
    /\ ExtractedFirst(run[w])
    /\ ResolvedBeforeCheck(run[w])
    /\ run[w].session.Hash \in {HashBCrypt, HashPlainText} => CheckedBeforeBind(run[w])
    /\ FailureEndsRun(run[w])

\* C8: the session is on the request context exactly when the run returned
\* nil, 200 and the API's BaseIdentityProvidedBy is BasicAuthUser or unset, and
\* then it is the resolved session under its key; in every other run, and at
\* every earlier point, the context is as it was.
C8_BindOnlyOnSuccess ==
  \A w \in Workers :
    /\ run[w].ctx.set <=>
         /\ Succeeded(run[w])
         /\ run[w].api.BaseIdentityProvidedBy \in {BasicAuthUser, UnsetAuth}
    /\ run[w].ctx.set =>
         /\ run[w].ctx.keyName \in DOMAIN IdentityStore
         /\ run[w].ctx.session = IdentityStore[run[w].ctx.keyName]
         /\ run[w].ctx.session = run[w].session
    /\ ~run[w].ctx.set => run[w].ctx = NoCtx

\* a successful run on an API whose identity comes from another provider
C8_Witness ==
  \E w \in Workers :
    /\ Succeeded(run[w]) /\ run[w].api.BaseIdentityProvidedBy = AuthToken
    /\ run[w].ctx = NoCtx

C8_WitnessBound ==
  \E w \in Workers :
    /\ Succeeded(run[w]) /\ run[w].ctx.set
    /\ run[w].api.BaseIdentityProvidedBy = BasicAuthUser

Lookups(r) == SelectSeq(r.ops, LAMBDA o : o \in LookupOps)

Outcome(r) == <<r.err, r.code, r.wwwAuth, Len(r.events), r.health, r.ctx.set, r.ctx.session>>

\* C9: the canonical key is looked up first; the legacy key (organization
\* prefix stripped from the user name) only after the canonical lookup missed
\* with a hash key function configured, and once, so a run makes at most two
\* lookups; a run resolved by the legacy key ends as a run on the same API
\* with the same password that the canonical key resolved to the same identity.
C9_LegacyFallback ==
  /\ \A w \in Workers :
       /\ Lookups(run[w]) \in {<<>>, <<"lookup canonical">>,
                               <<"lookup canonical", "lookup legacy">>}
       /\ Has(run[w], "lookup legacy") =>
            /\ run[w].hashKeyFunction \notin {"unread", ""}
            /\ generateToken(run[w].api.OrgID, run[w].username) \notin DOMAIN IdentityStore
            /\ run[w].keyName =
                 GenerateToken(run[w].api.OrgID,
                               TrimPrefix(run[w].username, run[w].api.OrgID), "")
       /\ (Has(run[w], "lookup canonical") /\ ~Has(run[w], "lookup legacy")
             /\ run[w].pc # "done") =>
            run[w].keyName = generateToken(run[w].api.OrgID, run[w].username)
  /\ \A w1, w2 \in Workers :
       ( /\ Done(w1) /\ Done(w2)
         /\ Has(run[w1], "lookup legacy") /\ ~NotFoundRun(run[w1])
         /\ Has(run[w2], "lookup canonical") /\ ~Has(run[w2], "lookup legacy")
         /\ ~NotFoundRun(run[w2])
         /\ run[w1].session = run[w2].session
         /\ run[w1].password = run[w2].password
         /\ run[w1].api = run[w2].api )
       => Outcome(run[w1]) = Outcome(run[w2])

\* the same identity reached by the legacy key in one run and by the canonical
\* key in the other, both accepted
C9_Witness ==
  \E w1, w2 \in Workers :
    /\ Succeeded(run[w1]) /\ Succeeded(run[w2])
    /\ Has(run[w1], "lookup legacy") /\ ~Has(run[w2], "lookup legacy")
    /\ run[w1].session = run[w2].session
    /\ run[w1].ctx.set /\ run[w2].ctx.set

\* both rejected by the slow check
C9_WitnessRejected ==
  \E w1, w2 \in Workers :
    /\ BadPasswordRun(run[w1]) /\ BadPasswordRun(run[w2])
    /\ Has(run[w1], "lookup legacy") /\ ~Has(run[w2], "lookup legacy")
    /\ run[w1].session = run[w2].session

\* the organization prefix was stripped from the user name "ov"
C9_WitnessPrefix ==
  \E w \in Workers :
    /\ Succeeded(run[w]) /\ Has(run[w], "lookup legacy")
    /\ run[w].username = OrgID \o <<118>>
    /\ run[w].keyName.id = <<118>>

\* C10: the body is read only after header extraction failed in the same run,
\* and only on an API with ExtractFromBody set and both patterns non-empty and
\* compilable; a header that yields credentials leaves the body unread; after
\* a successful body extraction the response carries no WWW-Authenticate value
\* set by header extraction.
C10_BodyOnlyAfterHeader ==
  \A w \in Workers :
    /\ Has(run[w], "body") =>
         /\ Len(run[w].ops) >= 2
         /\ run[w].ops[1] = "header" /\ run[w].ops[2] = "body"
         /\ \A i \in 3..Len(run[w].ops) : run[w].ops[i] # "body"
         /\ basicAuthHeaderCredentials(run[w].header).err # NoErr
         /\ run[w].api.UseBasicAuth /\ run[w].api.ExtractFromBody
         /\ run[w].api.BodyUserRegexp \notin {RxEmpty, RxBad}
         /\ run[w].api.BodyPasswordRegexp \notin {RxEmpty, RxBad}
    /\ (Started(run[w]) /\ basicAuthHeaderCredentials(run[w].header).err = NoErr) =>
         ~Has(run[w], "body")
    /\ (Has(run[w], "body") /\ BodyYields(run[w])) =>
         /\ run[w].username = run[w].body.User.val
         /\ run[w].password = run[w].body.Pass.val
         /\ IF Has(run[w], "handleAuthFail")
            THEN run[w].wwwAuth = << <<"Basic realm=", run[w].api.Name>> >>
            ELSE run[w].wwwAuth = <<>>

\* header absent (challenge added by header mode), credentials taken from the
\* body, nothing left on the response
C10_Witness ==
  \E w \in Workers :
    /\ run[w].pc = "resolve" /\ run[w].header = <<>>
    /\ run[w].ops = <<"header", "body">>
    /\ run[w].username = <<117>> /\ run[w].wwwAuth = <<>>

\* a header with credentials travelling with a body that also has them
C10_WitnessUnread ==
  \E w \in Workers :
    /\ Done(w) /\ run[w].api.ExtractFromBody /\ run[w].body = BodyUP
    /\ basicAuthHeaderCredentials(run[w].header).err = NoErr
    /\ ~Has(run[w], "body")

\* ---------------------------------------------------------------------------
\* Header-mode extraction on its own: every header over HdrAlphabet
\* ---------------------------------------------------------------------------
HdrAlphabet == {" ", "d", "T", "p", "w", "=", "!"}

HeaderStrings == UNION {[1..n -> HdrAlphabet] : n \in 0..MaxHdrLen}

Unset == [err |-> "unset"]

InitHeader ==
  /\ run = [w \in Workers |-> IdleRun]
  /\ cache = basicAuthCache
  /\ now = 0
  /\ traffic = "serial"
  /\ hdrIn \in HeaderStrings
  /\ hdrOut = Unset
  /\ eh = NoCall
  /\ verifiedAt = NeverVerified

ApplyHeader ==
  /\ hdrOut = Unset
  /\ hdrOut' = basicAuthHeaderCredentials(hdrIn)
  /\ UNCHANGED <<run, cache, now, traffic, hdrIn, eh, verifiedAt>>

NextHeader == ApplyHeader

SpecHeader == InitHeader /\ [][NextHeader]_vars

\* C6: header-mode extraction puts every Authorization value in exactly one
\* class: empty gives 401 with a challenge added; not exactly one space, a
\* second token that is not valid base64, or decoded text without exactly
\* one ':' gives 400 with no challenge; anything else returns the decoded
\* pair (username ':' password is the decoded text) with no error.
Count(s, c) == Cardinality({i \in 1..Len(s) : s[i] = c})

SecondToken(s) ==
  LET i == CHOOSE k \in 1..Len(s) : s[k] = " " IN SubSeq(s, i + 1, Len(s))

Malformed(s) ==
  \/ Count(s, " ") # 1
  \/ ~DecodeString(SecondToken(s)).ok
  \/ Count(DecodeString(SecondToken(s)).bytes, Colon) # 1

C6_HeaderClasses ==
  hdrOut # Unset =>
    /\ hdrIn = <<>> =>
         /\ hdrOut.code = StatusUnauthorized /\ hdrOut.err # NoErr
         /\ hdrOut.challenge
    /\ (hdrIn # <<>> /\ Malformed(hdrIn)) =>
         /\ hdrOut.code = StatusBadRequest /\ hdrOut.err # NoErr
         /\ ~hdrOut.challenge
    /\ (hdrIn # <<>> /\ ~Malformed(hdrIn)) =>
         /\ hdrOut.err = NoErr /\ ~hdrOut.challenge
         /\ hdrOut.username \o <<Colon>> \o hdrOut.password
              = DecodeString(SecondToken(hdrIn)).bytes
         /\ Count(hdrOut.username, Colon) = 0
         /\ Count(hdrOut.password, Colon) = 0

\* " dTpw" decodes to u:p
C6_Witness ==
  /\ hdrOut # Unset
  /\ hdrOut.err = NoErr
  /\ hdrOut.username = <<117>>
  /\ hdrOut.password = <<112>>

C6_WitnessPadded ==
  hdrOut # Unset /\ hdrOut.err = NoErr /\ hdrOut.password = <<>> /\ hdrOut.username # <<>>

C6_WitnessBadBase64 ==
  /\ hdrOut # Unset
  /\ Count(hdrIn, " ") = 1
  /\ hdrOut.err = "Attempted access with malformed header, auth data not encoded correctly"

\* ---------------------------------------------------------------------------
\* Error handler (gateway/handler_error.go): HandleError renders the error
\* response, dispatches one analytics record and reports the health signal.
\* One call is followed from its arguments to its return; eh holds the call,
\* the response writer, the request path the handler rewrites, and what was
\* handed to the recording backend and the health sink.  The template set
\* always holds error.json, the template the gateway ships as its last
\* resort; the error message and its escaping are left out.
\* ---------------------------------------------------------------------------
\* longest request path enumerated
MaxPathLen == 3

StatusForbidden == 403
Hour == 3600

ApplicationXML == "application/xml"
ApplicationJSON == "application/json"
defaultTemplateName == "error"
defaultTemplateFormat == "json"
defaultContentType == ApplicationJSON
BlockedRequestLog == "BlockedRequest"

Digits == <<"0", "1", "2", "3", "4", "5", "6", "7", "8", "9">>

\* strconv.Itoa for a non-negative number
RECURSIVE Itoa(_)
Itoa(n) ==
  IF n < 10 THEN <<Digits[n + 1]>>
  ELSE Itoa(n \div 10) \o <<Digits[(n % 10) + 1]>>

\* "error_" + strconv.Itoa(errCode) + "." + templateExtension
CodeTemplate(errCode, ext) == <<"error_">> \o Itoa(errCode) \o <<".", ext>>

\* defaultTemplateName + "." + templateExtension
GenericTemplate(ext) == <<defaultTemplateName, ".", ext>>

\* a point in time as whole days and seconds of the day; a 100-year
\* duration does not fit the integers of the checker when held in seconds
Day == 24 * Hour

Time(secs) == [days |-> secs \div Day, secs |-> secs % Day]

\* t.Add(d) for a duration of d seconds
AddSeconds(t, d) ==
  LET total == t.days * Day + t.secs + d IN
  [days |-> total \div Day, secs |-> total % Day]

\* t.Add(d) for a duration of d days
AddDays(t, d) == [days |-> t.days + d, secs |-> t.secs]

\* ---- the calls followed ----
ErrCodes == {StatusUnauthorized, StatusForbidden}

RequestContentTypes == {ApplicationXML, ApplicationJSON, ""}

OptionalTemplates ==
  {CodeTemplate(StatusForbidden, "xml"), CodeTemplate(StatusForbidden, "json"),
   GenericTemplate("xml")}

TemplateSets ==
  {ts \cup {GenericTemplate(defaultTemplateFormat)} : ts \in SUBSET OptionalTemplates}

PathAlphabet == {"/", "a"}

Paths == UNION {[1..n -> PathAlphabet] : n \in 0..MaxPathLen}

TrackedPath == <<"/", "t">>

Retentions == {0, Hour}

OrgCaps == {0, 60, 2 * Hour}

\* the gateway's defaults, and a gateway that hides the generator header and
\* closes connections
GlobalConfigs ==
  {[HideGeneratorHeader |-> FALSE, CloseConnections |-> FALSE],
   [HideGeneratorHeader |-> TRUE, CloseConnections |-> TRUE]}

\* what the response half of the handler reads; nothing of it is read when
\* writeResponse is false
ResponseSides ==
  {[writeResponse |-> FALSE, contentType |-> "",
    templates |-> {GenericTemplate(defaultTemplateFormat)},
    HideGeneratorHeader |-> FALSE, CloseConnections |-> FALSE]}
  \cup
  {[writeResponse |-> TRUE, contentType |-> ct, templates |-> ts] @@ gc :
     ct \in RequestContentTypes, ts \in TemplateSets, gc \in GlobalConfigs}

\* what the recording half reads; none of it is read when the API is not
\* tracked or the client address is excluded, and the organisation cap is
\* only fetched when EnforceOrgDataAge is set
NotRecorded ==
  [Path |-> <<>>, StripListenPath |-> FALSE, trackedPath |-> <<>>,
   ctxDoNotTrack |-> FALSE, ExpireAnalyticsAfter |-> 0,
   EnforceOrgDataAge |-> FALSE, OrgSessionExpiry |-> 0]

TrackContexts ==
  {[trackedPath |-> <<>>, ctxDoNotTrack |-> FALSE],
   [trackedPath |-> TrackedPath, ctxDoNotTrack |-> FALSE],
   [trackedPath |-> TrackedPath, ctxDoNotTrack |-> TRUE]}

RetentionConfigs ==
  {[ExpireAnalyticsAfter |-> r, EnforceOrgDataAge |-> FALSE, OrgSessionExpiry |-> 0] :
     r \in Retentions}
  \cup
  {[ExpireAnalyticsAfter |-> r, EnforceOrgDataAge |-> TRUE, OrgSessionExpiry |-> o] :
     r \in Retentions, o \in OrgCaps}

RecordingSides ==
  {[DoNotTrack |-> TRUE, StoreAnalytics |-> FALSE] @@ NotRecorded,
   [DoNotTrack |-> FALSE, StoreAnalytics |-> FALSE] @@ NotRecorded}
  \cup
  {[DoNotTrack |-> FALSE, StoreAnalytics |-> TRUE, Path |-> p, StripListenPath |-> s]
     @@ tc @@ rc :
     p \in Paths, s \in BOOLEAN, tc \in TrackContexts, rc \in RetentionConfigs}

Calls ==
  {[errCode |-> c] @@ rs @@ ts :
     c \in ErrCodes, rs \in ResponseSides, ts \in RecordingSides}

\* ---- the handler ----
\* http.ResponseWriter before anything is written; status 0 and an empty
\* body mean that neither has been written
FreshWriter ==
  [contentType |-> "", generator |-> <<>>, connection |-> <<>>,
   status |-> 0, body |-> <<>>]

StartCall(call) ==
  [pc |-> "present", in |-> call, w |-> FreshWriter, path |-> call.Path,
   hits |-> <<>>, health |-> <<>>, trace |-> <<>>]

\* templates.Lookup: the template of that name, or nil (the empty name)
Lookup(templates, name) == IF name \in templates THEN name ELSE <<>>

\* variant: the last resort keeps the negotiated Content-Type
SelectTemplateNoOverride(call) ==
  LET xml == call.contentType = ApplicationXML
      ext == IF xml THEN "xml" ELSE "json"
      byCode == Lookup(call.templates, CodeTemplate(call.errCode, ext))
      generic == IF byCode = <<>> THEN Lookup(call.templates, GenericTemplate(ext))
                 ELSE byCode
  IN  [tmpl |-> IF generic = <<>>
                THEN Lookup(call.templates, GenericTemplate(defaultTemplateFormat))
                ELSE generic,
       contentType |-> IF xml THEN ApplicationXML ELSE ApplicationJSON]

\* the template the response is rendered with and the Content-Type set on
\* the response
SelectTemplate(call) ==
  LET xml == call.contentType = ApplicationXML
      templateExtension == IF xml THEN "xml" ELSE "json"
      contentType == IF xml THEN ApplicationXML ELSE ApplicationJSON
      byCode == Lookup(call.templates, CodeTemplate(call.errCode, templateExtension))
      generic == IF byCode = <<>>
                 THEN Lookup(call.templates, GenericTemplate(templateExtension))
                 ELSE byCode
  IN  IF generic = <<>>
      THEN [tmpl |-> Lookup(call.templates, GenericTemplate(defaultTemplateFormat)),
            contentType |-> defaultContentType]
      ELSE [tmpl |-> generic, contentType |-> contentType]

\* variant: the response is written whatever the caller asked
WriteResponseAlways(e) ==
  [e EXCEPT !.w = [FreshWriter EXCEPT !.status = e.in.errCode,
                                      !.body = GenericTemplate(defaultTemplateFormat)],
            !.trace = @ \o <<"WriteHeader", "Execute">>]

\* the response half: headers, status code, rendered body
WriteResponse(e) ==
  IF ~e.in.writeResponse THEN e
  ELSE LET sel == SelectTemplate(e.in) IN
       [e EXCEPT !.w = [contentType |-> sel.contentType,
                        generator |-> IF ~e.in.HideGeneratorHeader
                                      THEN <<"tyk.io">> ELSE <<>>,
                        connection |-> IF e.in.CloseConnections
                                       THEN <<"close">> ELSE <<>>,
                        status |-> e.in.errCode,
                        body |-> sel.tmpl],
                 !.trace = @ \o <<"WriteHeader", "Execute">>]

PresentStep(e) == [WriteResponse(e) EXCEPT !.pc = "track"]

\* r.URL.Path = "/" + r.URL.Path, then one '/' taken off a leading "//"
LeadingSlash(path) ==
  LET p == <<"/">> \o path IN
  IF HasPrefix(p, <<"/", "/">>) THEN TrimPrefix(p, <<"/">>) ELSE p

\* variant: a retention of 0 expires at once
calcExpiryNoSentinel(expiresAfter, t) == AddSeconds(t, expiresAfter)

calcExpiry(expiresAfter, t) ==
  IF expiresAfter = 0 THEN AddDays(t, 365 * 100)
  ELSE AddSeconds(t, expiresAfter)

\* the retention the record is given
ExpiresAfter(call) ==
  IF call.EnforceOrgDataAge /\ call.OrgSessionExpiry > 0
  THEN call.OrgSessionExpiry
  ELSE call.ExpireAnalyticsAfter

\* the analytics record, as far as the handler computes its fields; path is
\* r.URL.Path after the handler rewrote it
Record(call, path, t) ==
  LET tracked == call.trackedPath # <<>> /\ ~call.ctxDoNotTrack IN
  [Path |-> IF tracked THEN call.trackedPath ELSE path,
   RawPath |-> path,
   ResponseCode |-> call.errCode,
   TrackPath |-> tracked,
   TimeStamp |-> Time(t),
   ExpireAt |-> calcExpiry(ExpiresAfter(call), Time(t))]

\* the listen path is taken off the front of the path by code outside this
\* file: what is left is the path from some position k on
StripChoices(e) ==
  IF ~e.in.DoNotTrack /\ e.in.StoreAnalytics /\ e.in.StripListenPath
  THEN 0..Len(e.path) ELSE {0}

\* variant: the client address exclusion is not consulted
RecordStepIgnoreExclusion(e, k, t) ==
  IF e.in.DoNotTrack THEN [e EXCEPT !.pc = "done"]
  ELSE LET path == LeadingSlash(SubSeq(e.path, k + 1, Len(e.path))) IN
       [e EXCEPT !.path = path,
                 !.hits = Append(@, Record(e.in, path, t)),
                 !.trace = Append(@, "RecordHit"),
                 !.pc = "health"]

\* the recording half, up to analytics.RecordHit
RecordStep(e, k, t) ==
  IF e.in.DoNotTrack THEN [e EXCEPT !.pc = "done"]
  ELSE IF ~e.in.StoreAnalytics THEN [e EXCEPT !.pc = "health"]
  ELSE LET path == LeadingSlash(SubSeq(e.path, k + 1, Len(e.path))) IN
       [e EXCEPT !.path = path,
                 !.hits = Append(@, Record(e.in, path, t)),
                 !.trace = Append(@, "RecordHit"),
                 !.pc = "health"]

\* variant: the health signal precedes the handler's other effects
HealthStepFirst(e) ==
  [e EXCEPT !.health = Append(@, [metric |-> BlockedRequestLog, value |-> "-1"]),
            !.trace = <<"reportHealthValue">> \o @,
            !.pc = "done"]

\* reportHealthValue(e.Spec, BlockedRequestLog, "-1")
HealthStep(e) ==
  [e EXCEPT !.health = Append(@, [metric |-> BlockedRequestLog, value |-> "-1"]),
            !.trace = Append(@, "reportHealthValue"),
            !.pc = "done"]

InitError ==
  /\ run = [w \in Workers |-> IdleRun]
  /\ cache = basicAuthCache
  /\ now = TickStep
  /\ traffic = "serial"
  /\ hdrIn = <<>>
  /\ hdrOut = Unset
  /\ eh \in {StartCall(c) : c \in Calls}
  /\ verifiedAt = NeverVerified

PresentError ==
  /\ eh.pc = "present"
  /\ eh' = PresentStep(eh)
  /\ UNCHANGED <<run, cache, now, traffic, hdrIn, hdrOut, verifiedAt>>

RecordOutcome ==
  /\ eh.pc = "track"
  /\ \E k \in StripChoices(eh) : eh' = RecordStep(eh, k, now)
  /\ UNCHANGED <<run, cache, now, traffic, hdrIn, hdrOut, verifiedAt>>

ReportHealth ==
  /\ eh.pc = "health"
  /\ eh' = HealthStep(eh)
  /\ UNCHANGED <<run, cache, now, traffic, hdrIn, hdrOut, verifiedAt>>

NextError == PresentError \/ RecordOutcome \/ ReportHealth

SpecError == InitError /\ [][NextError]_vars

Returned == eh.pc = "done"

Dispatched == {eh.hits[i] : i \in 1..Len(eh.hits)}

OneLeadingSlash(path) ==
  /\ Len(path) >= 1 /\ path[1] = "/"
  /\ Len(path) >= 2 => path[2] # "/"

\* C11: with listen-path stripping off, the raw path of every record
\* dispatched by HandleError begins with exactly one '/', whatever number of
\* slashes the request path began with: leading slashes are trimmed to one,
\* so a request path "//a" is recorded as "/a".
C11_RawPathOneSlash ==
  \A rec \in Dispatched :
    ~eh.in.StripListenPath =>
      /\ OneLeadingSlash(rec.RawPath)
      /\ eh.in.Path = <<"/", "/", "a">> => rec.RawPath = <<"/", "a">>

\* C12: the expiry of a dispatched record is now + R seconds, R being the
\* organisation data-age cap when the cap is enforced and positive (also
\* when it exceeds the API retention, and when the API retention is 0) and
\* the API retention otherwise; with R = 0 the expiry is now + 100 years.
C12_Expiry ==
  \A rec \in Dispatched :
    LET capped == eh.in.EnforceOrgDataAge /\ eh.in.OrgSessionExpiry > 0
        R == IF capped THEN eh.in.OrgSessionExpiry ELSE eh.in.ExpireAnalyticsAfter
    IN  /\ R # 0 => rec.ExpireAt.days * Day + rec.ExpireAt.secs = now + R
        /\ R = 0 =>
             /\ rec.ExpireAt.days = 100 * 365 + now \div Day
             /\ rec.ExpireAt.secs = now % Day

\* a cap of two hours on an API that keeps its records for one hour
C12_Witness ==
  /\ Returned /\ Len(eh.hits) = 1
  /\ eh.in.EnforceOrgDataAge /\ eh.in.OrgSessionExpiry = 2 * Hour
  /\ eh.in.ExpireAnalyticsAfter = Hour
  /\ eh.hits[1].ExpireAt = Time(now + 2 * Hour)

\* a cap of one minute on an API that keeps its records forever
C12_WitnessCapOverForever ==
  /\ Returned /\ Len(eh.hits) = 1
  /\ eh.in.EnforceOrgDataAge /\ eh.in.OrgSessionExpiry = 60
  /\ eh.in.ExpireAnalyticsAfter = 0
  /\ eh.hits[1].ExpireAt = Time(now + 60)

\* no cap and no retention: a hundred years
C12_WitnessForever ==
  /\ Returned /\ Len(eh.hits) = 1
  /\ eh.in.EnforceOrgDataAge /\ eh.in.OrgSessionExpiry = 0
  /\ eh.in.ExpireAnalyticsAfter = 0
  /\ eh.hits[1].ExpireAt.days = 36500

Written == eh.w.status # 0

\* C13: a written response is rendered with the first template present among
\* error_<code>.<ext>, error.<ext> and error.json, <ext> being xml exactly
\* when the request's Content-Type is application/xml and json otherwise;
\* the response Content-Type is the negotiated one unless only error.json,
\* the last resort, was found, and then it is application/json.
C13_TemplateOrder ==
  Written =>
    LET ext == IF eh.in.contentType = "application/xml" THEN "xml" ELSE "json"
        order == << <<"error_">> \o Itoa(eh.in.errCode) \o <<".", ext>>,
                    <<"error", ".", ext>>,
                    <<"error", ".", "json">> >>
        present == {i \in 1..3 : order[i] \in eh.in.templates}
        first == CHOOSE i \in present : \A j \in present : i <= j
    IN  /\ eh.w.body = order[first]
        /\ first < 3 => eh.w.contentType = (IF ext = "xml" THEN "application/xml" ELSE "application/json")
        /\ first = 3 => eh.w.contentType = "application/json"

\* 403 on an XML request with error_403.xml loaded
C13_Witness ==
  /\ Written /\ eh.in.contentType = ApplicationXML
  /\ eh.w.body = <<"error_", "4", "0", "3", ".", "xml">>
  /\ eh.w.contentType = ApplicationXML

\* an XML request, no XML template loaded: error.json and a JSON response
C13_WitnessLastResort ==
  /\ Written /\ eh.in.contentType = ApplicationXML
  /\ eh.in.templates = {<<"error", ".", "json">>}
  /\ eh.w.body = <<"error", ".", "json">>
  /\ eh.w.contentType = ApplicationJSON

\* 401 on an XML request with only the 403 template and error.xml loaded
C13_WitnessGeneric ==
  /\ Written /\ eh.in.errCode = StatusUnauthorized
  /\ eh.in.contentType = ApplicationXML
  /\ <<"error_", "4", "0", "3", ".", "xml">> \in eh.in.templates
  /\ eh.w.body = <<"error", ".", "xml">>

\* C14: a HandleError call dispatches exactly one analytics record, carrying
\* the status code it was given, unless the API has DoNotTrack set or
\* analytics storage is excluded for the client address, and then it
\* dispatches none; at no point of a call has more than one been dispatched.
C14_OneRecord ==
  /\ Len(eh.hits) <= 1
  /\ \A rec \in Dispatched : rec.ResponseCode = eh.in.errCode
  /\ Returned =>
       IF eh.in.DoNotTrack \/ ~eh.in.StoreAnalytics
       THEN eh.hits = <<>>
       ELSE Len(eh.hits) = 1

C14_Witness ==
  /\ Returned /\ Len(eh.hits) = 1
  /\ eh.in.errCode = StatusForbidden
  /\ eh.hits[1].ResponseCode = StatusForbidden

\* a tracked API, a client address whose analytics are not stored
C14_WitnessExcluded ==
  /\ Returned /\ ~eh.in.DoNotTrack /\ ~eh.in.StoreAnalytics
  /\ eh.hits = <<>>

C14_WitnessNotTracked ==
  Returned /\ eh.in.DoNotTrack /\ eh.hits = <<>>

\* HandleError run to its return from state e
Complete(e, k, t) ==
  LET recorded == RecordStep(PresentStep(e), k, t) IN
  IF recorded.pc = "health" THEN HealthStep(recorded) ELSE recorded

\* the calls that differ from call only in what the response half reads,
\* and ask for the response to be written
WritingTwins(call) ==
  LET kept == {"errCode", "DoNotTrack", "StoreAnalytics"} \cup DOMAIN NotRecorded IN
  {rs @@ [f \in kept |-> call[f]] : rs \in {x \in ResponseSides : x.writeResponse}}

\* C15: the status code and the body are written only when writeResponse is
\* true; with writeResponse false nothing is written to the client, and the
\* analytics record and the health signal are the ones the same call with
\* writeResponse true produces.
C15_WriteOnlyWhenAsked ==
  /\ ~eh.in.writeResponse => eh.w = FreshWriter
  /\ (eh.in.writeResponse /\ eh.pc # "present") =>
       eh.w.status = eh.in.errCode /\ eh.w.body # <<>>
  /\ (Returned /\ ~eh.in.writeResponse) =>
       /\ WritingTwins(eh.in) # {}
       /\ \A c \in WritingTwins(eh.in) :
           \E k \in StripChoices(StartCall(c)) :
             LET twin == Complete(StartCall(c), k, now) IN
             /\ twin.w.status = c.errCode
             /\ twin.hits = eh.hits
             /\ twin.health = eh.health

\* nothing written, a record dispatched and the health signal sent
C15_Witness ==
  /\ Returned /\ ~eh.in.writeResponse
  /\ eh.w = FreshWriter
  /\ Len(eh.hits) = 1 /\ Len(eh.health) = 1

C15_WitnessWritten ==
  /\ Returned /\ eh.in.writeResponse
  /\ eh.w.status = StatusUnauthorized
  /\ Len(eh.hits) = 1 /\ Len(eh.health) = 1

\* ---------------------------------------------------------------------------
\* The verification cache under concurrent verifications
\* ---------------------------------------------------------------------------
KnownPasswords == {PwP, PwQ, PwR}

\* the cache entry of hash h holds the fingerprint of a password the slow
\* check accepts for h
EntryVerified(c, h) ==
  c[h].present =>
    \E pw \in KnownPasswords :
      CompareHashAndPassword(h, pw) /\ c[h].value = Fingerprint(pw)

\* C16: under every interleaving of concurrent verifications, each entry of
\* the verification cache maps a hash to the fingerprint of a password that
\* passed the slow bcrypt check against exactly that hash: an entry changes
\* only in the step in which a worker's slow check of that hash succeeds, and
\* a failed slow verification leaves the whole cache as it was.
C16_CacheSound ==
  /\ [](\A h \in CacheKeys : EntryVerified(cache, h))
  /\ [][/\ \A h \in CacheKeys :
             cache'[h] # cache[h] =>
               \E w \in Workers :
                 /\ run[w].pc = "miss" /\ run'[w] # run[w]
                 /\ run[w].session.Password = h
                 /\ CompareHashAndPassword(h, run[w].password)
                 /\ cache'[h].value = Fingerprint(run[w].password)
        /\ \A w \in Workers :
             (/\ run[w].pc = "miss" /\ run'[w] # run[w]
              /\ ~CompareHashAndPassword(run[w].session.Password, run[w].password))
             => cache' = cache /\ RejectedRun(run'[w])]_vars

\* a worker that read a miss is about to verify while another worker's entry
\* for the same hash is already in the cache
C16_Witness ==
  \E w \in Workers :
    /\ run[w].pc = "miss"
    /\ Live(cache, run[w].session.Password, now)

\* the same with a wrong password: its slow check will fail beside a live
\* entry
C16_WitnessFailing ==
  \E w \in Workers :
    /\ run[w].pc = "miss" /\ WrongBcrypt(run[w])
    /\ Live(cache, run[w].session.Password, now)

\* a worker read a miss on an entry that had expired
C16_WitnessExpired ==
  \E w \in Workers :
    /\ run[w].pc = "miss"
    /\ cache[run[w].session.Password].present
    /\ ~Live(cache, run[w].session.Password, now)

\* ---------------------------------------------------------------------------
\* compareHashAndPassword on its own: one verification started in every cache
\* state.  An entry holding the fingerprint of a password other than the one
\* supplied is among them; the program gets there with a wrong password, and
\* with a correct one when bcrypt accepts two passwords for one hash (it
\* reads only the first 72 bytes of a password).
\* ---------------------------------------------------------------------------
VerifyTime == TickStep

CacheEntries ==
  {NoEntry} \cup
  {[present |-> TRUE, value |-> Fingerprint(pw), exp |-> e] :
     pw \in {PwP, PwR}, e \in {0, MaxTime}}

CacheStates == [CacheKeys -> CacheEntries]

\* the runs that reached the password check
VerifyRuns ==
  {r \in {ResolveStep(ExtractStep(NewRun(api, rq), EnabledForSpec(api)), "") :
            api \in {a \in APIs : EnabledForSpec(a).enabled},
            rq \in {q \in Requests : q.body = NoBody}} :
     r.pc = "verify"}

InitVerify ==
  /\ run \in {[w \in Workers |-> IF w = "w1" THEN r ELSE IdleRun] : r \in VerifyRuns}
  /\ cache \in CacheStates
  /\ now = VerifyTime
  /\ traffic = "serial"
  /\ hdrIn = <<>>
  /\ hdrOut = Unset
  /\ eh = NoCall
  /\ verifiedAt = NeverVerified

NextVerify == VerifyPassword("w1") \/ SlowVerify("w1")

SpecVerify == InitVerify /\ [][NextVerify]_vars

\* C17: a password the slow bcrypt check accepts for the stored hash is
\* accepted by compareHashAndPassword in every cache state: on a miss (after
\* the slow check), on a hit with an equal fingerprint, on a hit with another
\* password's fingerprint (the slow check runs and its result is returned)
\* and with caching disabled; the hit and cache-disabled cases leave the
\* cache unchanged.
C17_CorrectPasswordAccepted ==
  [][\A w \in Workers :
       LET r == run[w]
           h == r.session.Password
       IN
       (/\ r.pc \in {"verify", "miss"} /\ run'[w] # r
        /\ r.session.Hash = HashBCrypt
        /\ CompareHashAndPassword(h, r.password))
       =>
         /\ r.pc = "miss" => Succeeded(run'[w])
         /\ (r.pc = "verify" /\ r.api.DisableCaching) =>
              /\ Succeeded(run'[w]) /\ Has(run'[w], "bcrypt")
              /\ cache' = cache
         /\ (r.pc = "verify" /\ ~r.api.DisableCaching /\ Live(cache, h, now)) =>
              /\ Succeeded(run'[w])
              /\ cache' = cache
              /\ Has(run'[w], "bcrypt") <=> cache[h].value # Fingerprint(r.password)
         /\ (r.pc = "verify" /\ ~r.api.DisableCaching /\ ~Live(cache, h, now)) =>
              /\ run'[w].pc = "miss"
              /\ cache' = cache]_vars

\* a live entry with another password's fingerprint, the correct password
\* supplied: accepted by the slow check
C17_Witness ==
  LET r == run["w1"] IN
  /\ Succeeded(r) /\ r.session.Hash = HashBCrypt /\ ~r.api.DisableCaching
  /\ CompareHashAndPassword(r.session.Password, r.password)
  /\ Live(cache, r.session.Password, now)
  /\ cache[r.session.Password].value # Fingerprint(r.password)
  /\ Has(r, "bcrypt")

C17_WitnessMiss ==
  LET r == run["w1"] IN
  /\ Succeeded(r) /\ Has(r, "cache.Set")
  /\ cache[r.session.Password].exp = now + cacheTTL(r.api)

C17_WitnessHit ==
  LET r == run["w1"] IN
  /\ Succeeded(r) /\ r.session.Hash = HashBCrypt /\ ~r.api.DisableCaching
  /\ ~Has(r, "bcrypt")
  /\ CompareHashAndPassword(r.session.Password, r.password)

C17_WitnessDisabled ==
  LET r == run["w1"] IN
  /\ Succeeded(r) /\ r.session.Hash = HashBCrypt /\ r.api.DisableCaching
  /\ cache[r.session.Password].present

\* ---------------------------------------------------------------------------
\* The health signal of the error handler
\* ---------------------------------------------------------------------------
Positions(name) == {i \in 1..Len(eh.trace) : eh.trace[i] = name}

\* C18: a HandleError call on an API that has not opted out of tracking
\* emits exactly one BlockedRequestLog "-1" health signal, whether or not a
\* record was dispatched, and a call on an API with DoNotTrack emits none;
\* when a record is dispatched the signal comes after the dispatch, never
\* before it.
C18_HealthSignal ==
  /\ Len(eh.health) <= 1
  /\ \A i \in 1..Len(eh.health) :
       eh.health[i] = [metric |-> "BlockedRequest", value |-> "-1"]
  /\ Returned => Len(eh.health) = (IF eh.in.DoNotTrack THEN 0 ELSE 1)
  /\ (~eh.in.DoNotTrack /\ eh.in.StoreAnalytics /\ eh.health # <<>>) =>
       Len(eh.hits) = 1
  /\ \A i \in Positions("reportHealthValue"), j \in Positions("RecordHit") : j < i

\* record dispatched, then the signal
C18_Witness ==
  /\ Returned /\ Len(eh.hits) = 1 /\ Len(eh.health) = 1
  /\ eh.trace = <<"RecordHit", "reportHealthValue">>

\* client address excluded: no record, one signal
C18_WitnessExcluded ==
  /\ Returned /\ ~eh.in.DoNotTrack /\ ~eh.in.StoreAnalytics
  /\ eh.hits = <<>> /\ Len(eh.health) = 1

C18_WitnessNotTracked ==
  /\ Returned /\ eh.in.DoNotTrack /\ eh.in.writeResponse
  /\ eh.health = <<>> /\ eh.trace = <<"WriteHeader", "Execute">>

\* ---------------------------------------------------------------------------
\* Success of ProcessRequest
\* ---------------------------------------------------------------------------
\* the run compared the supplied password with the stored one by the means of
\* the identity's hash kind, and they matched
PasswordChecked(r) ==
  \/ /\ r.session.Hash = HashPlainText
     /\ Has(r, "plaintext") /\ r.session.Password = r.password
  \/ /\ r.session.Hash = HashBCrypt
     /\ Has(r, "bcrypt") /\ CompareHashAndPassword(r.session.Password, r.password)
  \/ /\ r.session.Hash = HashBCrypt
     /\ Has(r, "cache.Get") /\ ~Has(r, "bcrypt")
     /\ cache[r.session.Password].present
     /\ cache[r.session.Password].value = Fingerprint(r.password)

\* C19: ProcessRequest returns nil, 200 only if the supplied password was
\* checked against the stored password of the resolved identity and matched
\* (string equality for plain text, bcrypt or the cached fingerprint for
\* bcrypt); no resolved identity, whatever its hash-kind tag, is accepted
\* without a password check.
C19_SuccessOnlyAfterCheck ==
  \A w \in Workers :
    Succeeded(run[w]) =>
      /\ run[w].keyName \in DOMAIN IdentityStore
      /\ PasswordChecked(run[w])

\* ---------------------------------------------------------------------------
\* Several APIs on the one cache: the concurrent traffic of Spec (APIs a1,
\* TTL 60 by default, and a2, TTL 30, the stored hashes shared), with the
\* history of the slow check kept beside it
\* ---------------------------------------------------------------------------
InitTTL ==
  /\ run = [w \in Workers |-> IdleRun]
  /\ cache = basicAuthCache
  /\ now = 0
  /\ traffic = "concurrent"
  /\ hdrIn = <<>>
  /\ hdrOut = Unset
  /\ eh = NoCall
  /\ verifiedAt = NeverVerified

VerifyPasswordTimed(w) ==
  /\ VerifyPasswordRun(w)
  /\ verifiedAt' = Verified(verifiedAt, run[w], VerifyStep(run[w], cache, now), now)

SlowVerifyTimed(w) ==
  /\ SlowVerifyRun(w)
  /\ verifiedAt' = Verified(verifiedAt, run[w], doBcryptWithCache(run[w], cache, now).run, now)

NextTTL ==
  \/ \E w \in Workers :
       \/ ExtractCredentials(w)
       \/ NotEnabled(w)
       \/ ResolveIdentity(w)
       \/ VerifyPasswordTimed(w)
       \/ SlowVerifyTimed(w)
  \/ Tick

SpecTTL == InitTTL /\ [][NextTTL]_vars

\* C20: with APIs of different CacheTTL sharing the cache and a stored hash,
\* a request is accepted by fingerprint match on an API only if a slow
\* verification of that hash succeeded within that API's own TTL (CacheTTL
\* seconds, 60 when CacheTTL is not positive) before the request.
C20_FingerprintWithinOwnTTL ==
  [][\A w \in Workers :
       LET r == run[w]
           h == r.session.Password
       IN
       (/\ r.pc = "verify" /\ r.session.Hash = HashBCrypt
        /\ Succeeded(run'[w]) /\ ~Has(run'[w], "bcrypt"))
       =>
         /\ verifiedAt[h] >= 0
         /\ now - verifiedAt[h] <= cacheTTL(r.api)]_vars
====
